---- MODULE Spec2Model ----
(***************************************************************************)
(* File-Sorter: a watcher that moves every file of a target directory into *)
(* the subdirectory named after the file's extension.                      *)
(*                                                                         *)
(* The model follows src/src/main.rs (main) and src/src/watch.rs           *)
(* (FileWatcher).  A file name is a sequence of characters, a path is a    *)
(* sequence of names relative to the resolved target directory, and the    *)
(* filesystem maps paths to entries.  handle_file is split at its four     *)
(* filesystem calls (exists, create_dir, is_file, rename) so that another  *)
(* process can act between them.                                           *)
(***************************************************************************)
EXTENDS Naturals, Sequences, FiniteSets

\* ------------------------------------------------------------------ bounds

\* paths carried by one event
MaxPaths == 2
\* items delivered by the event channel before it is closed
MaxEvents == 2
\* steps taken by other processes on the target directory
MaxExternal == 1

\* ------------------------------------------------------------------ names

NameAT == <<"a", ".", "t">>
NameT == <<"t">>
NameDotB == <<".", "b">>
NameADot == <<"a", ".">>
DotDot == <<".", ".">>

\* the names an entry of the target directory can have
Names == {NameAT, NameT, NameDotB, NameADot}

None == [some |-> FALSE, val |-> <<>>]
Some(v) == [some |-> TRUE, val |-> v]

\* position of the last "." of a name, 0 when it has none
RECURSIVE LastDot(_, _)
LastDot(n, i) == IF i = 0 THEN 0 ELSE IF n[i] = "." THEN i ELSE LastDot(n, i - 1)

\* Path::file_name: the last component, unless the path ends in ".."
FileName(p) ==
    IF Len(p) = 0 \/ p[Len(p)] = DotDot THEN None ELSE Some(p[Len(p)])

\* Path::extension: nothing without a file name, without a "." in it, or when
\* its only "." is the first character; otherwise what follows the last "."
Extension(p) ==
    LET f == FileName(p) IN
    IF ~f.some THEN None
    ELSE LET n == f.val
             d == LastDot(n, Len(n)) IN
         IF d = 0 \/ d = 1 THEN None ELSE Some(SubSeq(n, d + 1, Len(n)))

\* faulty variant: the extension is not joined, the bucket is the target directory
BucketDirTarget(ext) == <<>>

\* Path::new(&self.target_dir).join(ext): joining "" names the directory itself
BucketDir(ext) == IF ext = <<>> THEN <<>> ELSE <<ext>>

\* dir.join(file_name)
Destination(dir, name) == Append(dir, name)

\* ------------------------------------------------------------- filesystem

Absent == [kind |-> "absent", content |-> <<>>]
DirEntry == [kind |-> "dir", content |-> <<>>]
FileEntry(c) == [kind |-> "file", content |-> c]

\* the non-empty extensions of the names: the buckets
Exts == {Extension(<<n>>).val : n \in {m \in Names : Extension(<<m>>).some}} \ {<<>>}

TopPaths == {<<n>> : n \in Names \cup Exts}
BucketPaths == {<<Extension(<<n>>).val, n>> :
                  n \in {m \in Names : Extension(<<m>>).some /\ Extension(<<m>>).val # <<>>}}
\* the empty path is the target directory itself
FsPaths == {<<>>} \cup TopPaths \cup BucketPaths

\* the paths an event can carry: an entry of the target directory, or a path
\* without a file name
Handles == {<<n>> : n \in Names} \cup {<<DotDot>>}

\* the entry at a path; ".." is the parent of the target directory
Lookup(f, p) ==
    IF p \in FsPaths THEN f[p]
    ELSE IF p[Len(p)] = DotDot THEN DirEntry
    ELSE Absent

\* Path::exists, Path::is_file
Exists(f, p) == Lookup(f, p).kind # "absent"
IsFile(f, p) == Lookup(f, p).kind = "file"
IsDir(f, p) == Lookup(f, p).kind = "dir"

Parent(p) == SubSeq(p, 1, Len(p) - 1)

\* a directory holds entries only while it is a directory
WellFormed(f) ==
    \A p \in FsPaths \ {<<>>} : ~IsDir(f, Parent(p)) => f[p] = Absent

\* fs::create_dir: fails when the path exists or its parent is no directory
CreateDirOk(f, p) == ~Exists(f, p) /\ IsDir(f, Parent(p)) /\ p \in FsPaths
CreateDirFs(f, p) == [f EXCEPT ![p] = DirEntry]

\* faulty variant: rename refuses a destination that exists
RenameOkNoReplace(f, src, dst) ==
    /\ Exists(f, src)
    /\ IsDir(f, Parent(dst))
    /\ \/ src = dst
       \/ dst \in FsPaths /\ ~Exists(f, dst)

\* fs::rename (rename(2)): the source must exist and the destination's parent be
\* a directory; a file replaces a file, a directory replaces an empty directory
RenameOk(f, src, dst) ==
    /\ Exists(f, src)
    /\ IsDir(f, Parent(dst))
    /\ \/ src = dst
       \/ /\ dst \in FsPaths
          /\ \/ ~Exists(f, dst)
             \/ IsFile(f, src) /\ IsFile(f, dst)
             \/ IsDir(f, src) /\ IsDir(f, dst)

\* faulty variant: the file is copied, the source stays
RenameFsKeepsSource(f, src, dst) ==
    IF src = dst THEN f ELSE [f EXCEPT ![dst] = f[src]]

RenameFs(f, src, dst) ==
    IF src = dst THEN f
    ELSE [p \in FsPaths |->
            IF p = dst THEN f[src]
            ELSE IF p = src THEN Absent
            ELSE IF p # <<>> /\ Parent(p) = src THEN Absent
            ELSE f[p]]

\* ------------------------------------------------------------------ state

VARIABLES
    target_dir,  \* FileWatcher.target_dir: path components, "/" first when absolute
    home,        \* the HOME environment variable, None when unset
    fs,          \* the filesystem under the resolved target directory
    pc,          \* where main is
    exitCode,    \* the process's exit status once pc = "exited"
    pending,     \* backload: the entries read_dir has still to yield
    caller,      \* who called handle_file: "backload" or "event"
    handle,      \* handle_file: the path being handled
    dir,         \* handle_file: the bucket directory
    result,      \* what the last call returned: "ok", the kind of its error, or "-"
    ev,          \* run: the item received from the channel
    idx,         \* handle_event: paths of ev handled so far
    nrecv,       \* items received from the channel so far
    extUsed,     \* steps other processes have taken so far
    fs0,         \* history: the filesystem when backload was called, then when
                 \* the item being handled was received
    ops,         \* history: what the current handle_file call did
    calls,       \* history: the paths handle_event passed to handle_file
    scanned,     \* history: the entries backload passed to handle_file
    closed,      \* the event channel is closed
    watching     \* history: the watch is registered

vars == <<target_dir, home, fs, pc, exitCode, pending, caller, handle, dir, result,
          ev, idx, nrecv, extUsed, fs0, ops, calls, scanned, closed, watching>>

\* mkdir: "-" create_dir not called, "created", "exists" when it failed on a
\* directory that was there by then, "failed" otherwise; isfile: what
\* move_file's is_file() saw; rename: "-" not called, else "ok" or "err"; src:
\* what the source was when rename was called; moved: the rename changed the
\* filesystem
NoOps == [mkdir |-> "-", isfile |-> "-", rename |-> "-", src |-> "-", moved |-> FALSE]
\* ext: the steps other processes had taken when the item was received
NoEvent == [ok |-> TRUE, kind |-> "-", paths |-> <<>>, ext |-> 0]

Errors == {"DirectoryList", "WatchRegistration", "Unclassifiable", "DirectoryCreate",
           "Move", "ChannelError"}
IsErr(r) == r \in Errors

\* ------------------------------------------------------------------- Init

Root == "/"
AbsTarget == <<Root, "w">>
RelTarget == <<"w">>
HomeDir == <<Root, "h">>

\* the kinds an entry can have at startup
InitKinds(p) ==
    IF p = <<>> THEN {"dir", "absent"}
    ELSE IF p \in {<<NameAT>>, <<NameT>>, <<NameT, NameAT>>} THEN {"absent", "file", "dir"}
    ELSE {"absent", "file"}

\* a file's content is named by where the file came from
InitEntry(p, k) ==
    IF k = "file" THEN FileEntry(<<"init">> \o p) ELSE [kind |-> k, content |-> <<>>]

InitFs ==
    LET Kinds == {k \in [FsPaths -> {"absent", "file", "dir"}] :
                    \A p \in FsPaths : k[p] \in InitKinds(p)}
    IN  {f \in {[p \in FsPaths |-> InitEntry(p, k[p])] : k \in Kinds} : WellFormed(f)}

\* the one startup directory tried with a relative target
SmallFs == [p \in FsPaths |->
              IF p = <<>> THEN DirEntry
              ELSE IF p = <<NameAT>> THEN InitEntry(p, "file")
              ELSE Absent]

Init ==
    /\ \/ target_dir = AbsTarget /\ home = Some(HomeDir) /\ fs \in InitFs
       \/ target_dir \in {AbsTarget, RelTarget} /\ home \in {None, Some(HomeDir)} /\ fs = SmallFs
    /\ fs0 = fs
    /\ pc = "start"
    /\ exitCode = 0
    /\ pending = {}
    /\ caller = "-"
    /\ handle = <<>>
    /\ dir = <<>>
    /\ result = "-"
    /\ ev = NoEvent
    /\ idx = 0
    /\ nrecv = 0
    /\ extUsed = 0
    /\ ops = NoOps
    /\ calls = <<>>
    /\ scanned = {}
    /\ closed = FALSE
    /\ watching = FALSE

\* ---------------------------------------------------------------- backload

\* expand_path: an absolute target is kept, a relative one is pushed onto HOME
ExpandOk == target_dir[1] = Root \/ home.some
\* faulty variant: a relative path is kept as it is
ExpandedUnchanged == target_dir

Expanded == IF target_dir[1] = Root THEN target_dir ELSE home.val \o target_dir

Exit(code) ==
    /\ pc' = "exited"
    /\ exitCode' = code

\* faulty variant: backload goes on with the configured path when expand_path fails
BackloadExpandLenient ==
    /\ pc = "start"
    /\ target_dir' = IF ExpandOk THEN Expanded ELSE target_dir
    /\ pc' = "read_dir"
    /\ UNCHANGED <<home, fs, exitCode, pending, caller, handle, dir, result, ev, idx, nrecv,
                   extUsed, fs0, ops, calls, scanned, closed, watching>>

\* backload, lines 24-28: expand_path, and exit(1) when it fails
BackloadExpand ==
    /\ pc = "start"
    /\ IF ExpandOk
       THEN /\ target_dir' = Expanded
            /\ pc' = "read_dir"
            /\ UNCHANGED exitCode
       ELSE /\ Exit(1)
            /\ UNCHANGED target_dir
    /\ UNCHANGED <<home, fs, pending, caller, handle, dir, result, ev, idx, nrecv,
                   extUsed, fs0, ops, calls, scanned, closed, watching>>

\* the names read_dir yields: the entries of the target directory
Entries(f) == {n \in Names \cup Exts : Exists(f, <<n>>)}

\* backload, line 31: read_dir(&self.target_dir)?
BackloadReadDir ==
    /\ pc = "read_dir"
    /\ IF IsDir(fs, <<>>)
       THEN /\ pending' = Entries(fs)
            /\ pc' = "scan"
            /\ UNCHANGED result
       ELSE /\ pc' = "backload_ret"
            /\ result' = "DirectoryList"
            /\ UNCHANGED pending
    /\ UNCHANGED <<target_dir, home, fs, exitCode, caller, handle, dir, ev, idx, nrecv,
                   extUsed, fs0, ops, calls, scanned, closed, watching>>

\* faulty variant: backload calls handle_file on every entry, directories too
BackloadNextAnyEntry ==
    /\ pc = "scan"
    /\ \E n \in pending :
         /\ pending' = pending \ {n}
         /\ pc' = "hf_start"
         /\ caller' = "backload"
         /\ handle' = <<n>>
         /\ scanned' = scanned \cup {n}
         /\ ops' = NoOps
    /\ UNCHANGED <<target_dir, home, fs, exitCode, dir, result, ev, idx, nrecv,
                   extUsed, fs0, calls, closed, watching>>

\* backload, lines 32-38: the next entry; handle_file when path.is_file()
BackloadNext ==
    /\ pc = "scan"
    /\ \E n \in pending :
         /\ pending' = pending \ {n}
         /\ IF IsFile(fs, <<n>>)
            THEN /\ pc' = "hf_start"
                 /\ caller' = "backload"
                 /\ handle' = <<n>>
                 /\ scanned' = scanned \cup {n}
                 /\ ops' = NoOps
            ELSE UNCHANGED <<pc, caller, handle, scanned, ops>>
    /\ UNCHANGED <<target_dir, home, fs, exitCode, dir, result, ev, idx, nrecv,
                   extUsed, fs0, calls, closed, watching>>

\* backload, line 33: path? when the directory stream fails part way
BackloadEntryErr ==
    /\ pc = "scan"
    /\ pending # {}
    /\ pc' = "backload_ret"
    /\ result' = "DirectoryList"
    /\ pending' = {}
    /\ UNCHANGED <<target_dir, home, fs, exitCode, caller, handle, dir, ev, idx, nrecv,
                   extUsed, fs0, ops, calls, scanned, closed, watching>>

\* backload, line 40: Ok(()) after the last entry
BackloadDone ==
    /\ pc = "scan"
    /\ pending = {}
    /\ pc' = "backload_ret"
    /\ result' = "ok"
    /\ UNCHANGED <<target_dir, home, fs, exitCode, pending, caller, handle, dir, ev, idx,
                   nrecv, extUsed, fs0, ops, calls, scanned, closed, watching>>

\* faulty variant: main ignores the result of backload
MainAfterBackloadIgnore ==
    /\ pc = "backload_ret"
    /\ pc' = "run_init"
    /\ fs0' = fs
    /\ scanned' = {}
    /\ UNCHANGED <<target_dir, home, fs, exitCode, pending, caller, handle, dir, result,
                   ev, idx, nrecv, extUsed, ops, calls, closed, watching>>

\* main, lines 12-19: exit(1) when backload failed, run() otherwise
MainAfterBackload ==
    /\ pc = "backload_ret"
    /\ IF IsErr(result)
       THEN Exit(1)
       ELSE /\ pc' = "run_init"
            /\ UNCHANGED exitCode
    /\ fs0' = fs
    /\ scanned' = {}
    /\ UNCHANGED <<target_dir, home, fs, pending, caller, handle, dir, result, ev, idx,
                   nrecv, extUsed, ops, calls, closed, watching>>

\* -------------------------------------------------------------- handle_file

\* handle_file returns to its caller
Return(r) ==
    /\ pc' = "hf_ret"
    /\ result' = r

\* faulty variant: a path without file name or extension is skipped with Ok(())
HandleFileStartLenient ==
    /\ pc = "hf_start"
    /\ LET file_name == FileName(handle)
           ext == Extension(handle)
       IN  IF file_name.some /\ ext.some
           THEN /\ dir' = BucketDir(ext.val)
                /\ pc' = IF Exists(fs, BucketDir(ext.val)) THEN "hf_isfile" ELSE "hf_create"
                /\ UNCHANGED result
           ELSE /\ pc' = "hf_ret"
                /\ result' = "ok"
                /\ UNCHANGED dir
    /\ UNCHANGED <<target_dir, home, fs, exitCode, pending, caller, handle, ev, idx, nrecv,
                   extUsed, fs0, ops, calls, scanned, closed, watching>>

\* faulty variant: create_dir is called without looking whether dir exists
HandleFileStartAlwaysCreate ==
    /\ pc = "hf_start"
    /\ LET file_name == FileName(handle)
           ext == Extension(handle)
       IN  IF file_name.some /\ ext.some
           THEN /\ dir' = BucketDir(ext.val)
                /\ pc' = "hf_create"
                /\ UNCHANGED result
           ELSE /\ Return("Unclassifiable")
                /\ UNCHANGED dir
    /\ UNCHANGED <<target_dir, home, fs, exitCode, pending, caller, handle, ev, idx, nrecv,
                   extUsed, fs0, ops, calls, scanned, closed, watching>>

\* handle_file, lines 82-87 and create_dir_if_not_exists, line 100: without a
\* file name or an extension it is an error; otherwise dir.exists()
HandleFileStart ==
    /\ pc = "hf_start"
    /\ LET file_name == FileName(handle)
           ext == Extension(handle)
       IN  IF file_name.some /\ ext.some
           THEN /\ dir' = BucketDir(ext.val)
                /\ pc' = IF Exists(fs, BucketDir(ext.val)) THEN "hf_isfile" ELSE "hf_create"
                /\ UNCHANGED result
           ELSE /\ Return("Unclassifiable")
                /\ UNCHANGED dir
    /\ UNCHANGED <<target_dir, home, fs, exitCode, pending, caller, handle, ev, idx, nrecv,
                   extUsed, fs0, ops, calls, scanned, closed, watching>>

\* create_dir_if_not_exists, line 104: create_dir(dir)?
CreateDir ==
    /\ pc = "hf_create"
    /\ IF CreateDirOk(fs, dir)
       THEN /\ fs' = CreateDirFs(fs, dir)
            /\ ops' = [ops EXCEPT !.mkdir = "created"]
            /\ pc' = "hf_isfile"
            /\ UNCHANGED result
       ELSE /\ ops' = [ops EXCEPT !.mkdir = IF IsDir(fs, dir) THEN "exists" ELSE "failed"]
            /\ Return("DirectoryCreate")
            /\ UNCHANGED fs
    /\ UNCHANGED <<target_dir, home, exitCode, pending, caller, handle, dir, ev, idx, nrecv,
                   extUsed, fs0, calls, scanned, closed, watching>>

\* faulty variant: move_file renames without looking at the source
MoveFileCheckSkip ==
    /\ pc = "hf_isfile"
    /\ pc' = "hf_rename"
    /\ UNCHANGED <<target_dir, home, fs, exitCode, pending, caller, handle, dir, result,
                   ev, idx, nrecv, extUsed, fs0, ops, calls, scanned, closed, watching>>

\* faulty variant: move_file fails when the source is no regular file
MoveFileCheckStrict ==
    /\ pc = "hf_isfile"
    /\ IF IsFile(fs, handle)
       THEN /\ ops' = [ops EXCEPT !.isfile = "yes"]
            /\ pc' = "hf_rename"
            /\ UNCHANGED result
       ELSE /\ ops' = [ops EXCEPT !.isfile = "no"]
            /\ Return("Move")
    /\ UNCHANGED <<target_dir, home, fs, exitCode, pending, caller, handle, dir, ev, idx,
                   nrecv, extUsed, fs0, calls, scanned, closed, watching>>

\* move_file, line 116: src.is_file(); a warning and Ok(()) when it is not
MoveFileCheck ==
    /\ pc = "hf_isfile"
    /\ IF IsFile(fs, handle)
       THEN /\ ops' = [ops EXCEPT !.isfile = "yes"]
            /\ pc' = "hf_rename"
            /\ UNCHANGED result
       ELSE /\ ops' = [ops EXCEPT !.isfile = "no"]
            /\ Return("ok")
    /\ UNCHANGED <<target_dir, home, fs, exitCode, pending, caller, handle, dir, ev, idx,
                   nrecv, extUsed, fs0, calls, scanned, closed, watching>>

\* move_file, line 117: rename(src, dest)?
MoveFileRename ==
    /\ pc = "hf_rename"
    /\ LET dest == Destination(dir, FileName(handle).val)
       IN  IF RenameOk(fs, handle, dest)
           THEN /\ fs' = RenameFs(fs, handle, dest)
                /\ ops' = [ops EXCEPT !.rename = "ok", !.src = Lookup(fs, handle).kind,
                                      !.moved = (handle # dest)]
                /\ Return("ok")
           ELSE /\ ops' = [ops EXCEPT !.rename = "err", !.src = Lookup(fs, handle).kind]
                /\ Return("Move")
                /\ UNCHANGED fs
    /\ UNCHANGED <<target_dir, home, exitCode, pending, caller, handle, dir, ev, idx, nrecv,
                   extUsed, fs0, calls, scanned, closed, watching>>

\* faulty variant: backload propagates the error of handle_file with ?
BackloadAfterHandleAbort ==
    /\ pc = "hf_ret"
    /\ caller = "backload"
    /\ pc' = IF IsErr(result) THEN "backload_ret" ELSE "scan"
    /\ caller' = "-"
    /\ handle' = <<>>
    /\ dir' = <<>>
    /\ ops' = NoOps
    /\ result' = IF IsErr(result) THEN result ELSE "-"
    /\ pending' = IF IsErr(result) THEN {} ELSE pending
    /\ UNCHANGED <<target_dir, home, fs, exitCode, ev, idx, nrecv, extUsed, fs0,
                   calls, scanned, closed, watching>>

\* faulty variant: backload puts a file whose handling failed back in the scan
BackloadAfterHandleRetry ==
    /\ pc = "hf_ret"
    /\ caller = "backload"
    /\ pc' = "scan"
    /\ caller' = "-"
    /\ handle' = <<>>
    /\ dir' = <<>>
    /\ ops' = NoOps
    /\ result' = "-"
    /\ pending' = IF IsErr(result) THEN pending \cup {handle[1]} ELSE pending
    /\ UNCHANGED <<target_dir, home, fs, exitCode, ev, idx, nrecv, extUsed, fs0,
                   calls, scanned, closed, watching>>

\* backload, lines 35-37: an error of handle_file is logged, the scan goes on
BackloadAfterHandle ==
    /\ pc = "hf_ret"
    /\ caller = "backload"
    /\ pc' = "scan"
    /\ caller' = "-"
    /\ handle' = <<>>
    /\ dir' = <<>>
    /\ ops' = NoOps
    /\ result' = "-"
    /\ UNCHANGED <<target_dir, home, fs, exitCode, pending, ev, idx, nrecv, extUsed, fs0,
                   calls, scanned, closed, watching>>

\* ---------------------------------------------------------------------- run

PathLists == UNION {[1..k -> Handles] : k \in 0..MaxPaths}

\* what the channel delivers: Ok(event) of some kind with paths, or Err
Items == [ok : {TRUE}, kind : {"CreateFile", "Other"}, paths : PathLists]
             \cup {[ok |-> FALSE, kind |-> "-", paths |-> <<>>]}

\* run, lines 45-49: the watch is registered on the target directory
RunRegisterOk ==
    /\ pc = "run_init"
    /\ IsDir(fs, <<>>)
    /\ watching' = TRUE
    /\ pc' = "listening"
    /\ result' = "-"
    /\ UNCHANGED <<target_dir, home, fs, exitCode, pending, caller, handle, dir, ev, idx,
                   nrecv, extUsed, fs0, ops, calls, scanned, closed>>

\* run, lines 47-48 and main, lines 19-22: the watcher cannot be set up
RunRegisterFail ==
    /\ pc = "run_init"
    /\ Exit(1)
    /\ result' = "WatchRegistration"
    /\ UNCHANGED <<target_dir, home, fs, pending, caller, handle, dir, ev, idx, nrecv,
                   extUsed, fs0, ops, calls, scanned, closed, watching>>

\* faulty variant: handle_event handles the paths of an event of any kind
RecvAnyKind ==
    /\ pc = "listening"
    /\ ~closed
    /\ nrecv < MaxEvents
    /\ \E item \in Items :
         /\ ev' = [ok |-> item.ok, kind |-> item.kind, paths |-> item.paths,
                    ext |-> extUsed]
         /\ nrecv' = nrecv + 1
         /\ pc' = IF item.ok THEN "dispatch" ELSE "chan_err"
         /\ result' = "-"
    /\ idx' = 0
    /\ calls' = <<>>
    /\ fs0' = fs
    /\ UNCHANGED <<target_dir, home, fs, exitCode, pending, caller, handle, dir, extUsed,
                   ops, scanned, closed, watching>>

\* run, lines 52-60 and handle_event, lines 66-76: the next item of the channel.
\* An Err is logged; an event that is no file creation is logged and Ok(())
Recv ==
    /\ pc = "listening"
    /\ ~closed
    /\ nrecv < MaxEvents
    /\ \E item \in Items :
         /\ ev' = [ok |-> item.ok, kind |-> item.kind, paths |-> item.paths,
                    ext |-> extUsed]
         /\ nrecv' = nrecv + 1
         /\ IF ~item.ok
            THEN /\ pc' = "chan_err"
                 /\ result' = "-"
            ELSE IF item.kind = "CreateFile"
            THEN /\ pc' = "dispatch"
                 /\ result' = "-"
            ELSE /\ pc' = "he_ret"
                 /\ result' = "ok"
    /\ idx' = 0
    /\ calls' = <<>>
    /\ fs0' = fs
    /\ UNCHANGED <<target_dir, home, fs, exitCode, pending, caller, handle, dir, extUsed,
                   ops, scanned, closed, watching>>

\* handle_event, lines 68-70 and 78: the next path of the event, or Ok(())
DispatchNext ==
    /\ pc = "dispatch"
    /\ IF idx < Len(ev.paths)
       THEN /\ idx' = idx + 1
            /\ handle' = ev.paths[idx + 1]
            /\ calls' = Append(calls, ev.paths[idx + 1])
            /\ caller' = "event"
            /\ ops' = NoOps
            /\ pc' = "hf_start"
            /\ UNCHANGED result
       ELSE /\ pc' = "he_ret"
            /\ result' = "ok"
            /\ UNCHANGED <<idx, handle, calls, caller, ops>>
    /\ UNCHANGED <<target_dir, home, fs, exitCode, pending, dir, ev, nrecv, extUsed, fs0,
                   scanned, closed, watching>>

\* faulty variant: handle_event propagates the error of handle_file with ?
EventAfterHandleAbort ==
    /\ pc = "hf_ret"
    /\ caller = "event"
    /\ pc' = IF IsErr(result) THEN "he_ret" ELSE "dispatch"
    /\ caller' = "-"
    /\ handle' = <<>>
    /\ dir' = <<>>
    /\ ops' = NoOps
    /\ result' = IF IsErr(result) THEN result ELSE "-"
    /\ UNCHANGED <<target_dir, home, fs, exitCode, pending, ev, idx, nrecv, extUsed, fs0,
                   calls, scanned, closed, watching>>

\* handle_event, lines 70-73: the result of handle_file is logged
EventAfterHandle ==
    /\ pc = "hf_ret"
    /\ caller = "event"
    /\ pc' = "dispatch"
    /\ caller' = "-"
    /\ handle' = <<>>
    /\ dir' = <<>>
    /\ ops' = NoOps
    /\ result' = "-"
    /\ UNCHANGED <<target_dir, home, fs, exitCode, pending, ev, idx, nrecv, extUsed, fs0,
                   calls, scanned, closed, watching>>

\* run, lines 55-57: an error of handle_event is logged; back to the channel
RunAfterEvent ==
    /\ pc = "he_ret"
    /\ pc' = "listening"
    /\ result' = "-"
    /\ ev' = NoEvent
    /\ idx' = 0
    /\ calls' = <<>>
    /\ fs0' = fs
    /\ UNCHANGED <<target_dir, home, fs, exitCode, pending, caller, handle, dir, nrecv,
                   extUsed, ops, scanned, closed, watching>>

\* faulty variant: an error of the channel ends the loop
RunAfterErrorBreak ==
    /\ pc = "chan_err"
    /\ Exit(0)
    /\ ev' = NoEvent
    /\ result' = "ChannelError"
    /\ fs0' = fs
    /\ UNCHANGED <<target_dir, home, fs, pending, caller, handle, dir, idx,
                   nrecv, extUsed, ops, calls, scanned, closed, watching>>

\* run, line 59: an error of the channel is logged; back to the channel
RunAfterError ==
    /\ pc = "chan_err"
    /\ pc' = "listening"
    /\ ev' = NoEvent
    /\ result' = "ChannelError"
    /\ fs0' = fs
    /\ UNCHANGED <<target_dir, home, fs, exitCode, pending, caller, handle, dir, idx,
                   nrecv, extUsed, ops, calls, scanned, closed, watching>>

\* run, lines 52 and 62, main, line 23: the channel is closed, the loop ends,
\* run returns Ok(()) and main ends
RunReturn ==
    /\ pc = "listening"
    /\ closed' = TRUE
    /\ Exit(0)
    /\ result' = "ok"
    /\ UNCHANGED <<target_dir, home, fs, pending, caller, handle, dir, ev, idx, nrecv,
                   extUsed, fs0, ops, calls, scanned, watching>>

\* ---------------------------------------------------------- other processes

\* the places where main reads or writes the filesystem next
Running == pc \in {"scan", "hf_start", "hf_create", "hf_isfile", "hf_rename", "listening"}
Scanning == pc = "scan" \/ (pc \in {"hf_start", "hf_create", "hf_isfile", "hf_rename", "hf_ret"}
                            /\ caller = "backload")

ExternalStep(f) ==
    /\ Running
    /\ extUsed < MaxExternal
    /\ IsDir(fs, <<>>)
    /\ fs' = f
    /\ extUsed' = extUsed + 1
    /\ UNCHANGED <<target_dir, home, pc, exitCode, caller, handle, dir, result, ev, idx,
                   nrecv, fs0, ops, calls, scanned, closed, watching>>

\* another process creates a file in the target directory; a directory stream
\* that is open may or may not yield the new entry
ExtCreateFile ==
    \E n \in Names :
        /\ ~Exists(fs, <<n>>)
        /\ ExternalStep([fs EXCEPT ![<<n>>] = FileEntry(<<"ext", n>>)])
        /\ \/ pending' = pending
           \/ Scanning /\ pending' = pending \cup {n}

\* another process removes a file of the target directory
ExtRemoveFile ==
    \E n \in Names :
        /\ IsFile(fs, <<n>>)
        /\ ExternalStep([fs EXCEPT ![<<n>>] = Absent])
        /\ pending' = pending

\* another process creates a directory in the target directory
ExtCreateDir ==
    \E n \in Names \cup Exts :
        /\ ~Exists(fs, <<n>>)
        /\ ExternalStep([fs EXCEPT ![<<n>>] = DirEntry])
        /\ pending' = pending

\* another process replaces a file of the target directory by a directory
ExtReplaceByDir ==
    \E n \in Names :
        /\ IsFile(fs, <<n>>)
        /\ ExternalStep([fs EXCEPT ![<<n>>] = DirEntry])
        /\ pending' = pending

External == ExtCreateFile \/ ExtRemoveFile \/ ExtCreateDir \/ ExtReplaceByDir

\* --------------------------------------------------------------------- Spec

Next ==
    \/ BackloadExpand
    \/ BackloadReadDir
    \/ BackloadNext
    \/ BackloadEntryErr
    \/ BackloadDone
    \/ BackloadAfterHandle
    \/ MainAfterBackload
    \/ HandleFileStart
    \/ CreateDir
    \/ MoveFileCheck
    \/ MoveFileRename
    \/ RunRegisterOk
    \/ RunRegisterFail
    \/ Recv
    \/ DispatchNext
    \/ EventAfterHandle
    \/ RunAfterEvent
    \/ RunAfterError
    \/ RunReturn
    \/ External

Spec == Init /\ [][Next]_vars

TypeOK ==
    /\ WellFormed(fs)
    /\ pc \in {"start", "read_dir", "scan", "hf_start", "hf_create", "hf_isfile", "hf_rename",
               "hf_ret", "backload_ret", "run_init", "listening", "dispatch", "he_ret",
               "chan_err", "exited"}
    /\ exitCode \in {0, 1}
    /\ result \in {"-", "ok"} \cup Errors
    /\ extUsed \in 0..MaxExternal
    /\ nrecv \in 0..MaxEvents

\* ------------------------------------------------------------------ claims

\* the names that have a bucket: those with a non-empty extension
HasBucket(n) == Extension(<<n>>).some /\ Extension(<<n>>).val # <<>>
BucketOf(n) == <<Extension(<<n>>).val>>
DestOf(n) == <<Extension(<<n>>).val, n>>

\* the file that was at the top-level path n in f0 is in its bucket in f
Moved(f0, f, n) == f[DestOf(n)] = f0[<<n>>] /\ ~Exists(f, <<n>>)

\* in f0 nothing but a directory has the bucket's name and no directory has
\* the destination's
Usable(f0, n) == ~IsFile(f0, BucketOf(n)) /\ ~IsDir(f0, DestOf(n))

BackloadReturnedOk == pc = "backload_ret" /\ result = "ok"

\* C1 as stated: once backload has returned, every regular file with a
\* non-empty extension that was in the target directory at startup is at
\* <ext>/<name> and not at its original path, whatever the directory held
\* (no other process acting)
C1_Original ==
    (BackloadReturnedOk /\ extUsed = 0) =>
        \A n \in Names : (IsFile(fs0, <<n>>) /\ HasBucket(n)) => Moved(fs0, fs, n)

\* C1 amended: the same, for the files whose bucket name was not taken by a
\* regular file and whose destination was not a directory at startup
C1_Amended ==
    (BackloadReturnedOk /\ extUsed = 0) =>
        \A n \in Names :
            (IsFile(fs0, <<n>>) /\ HasBucket(n) /\ Usable(fs0, n)) => Moved(fs0, fs, n)

C1_Witness ==
    /\ BackloadReturnedOk /\ extUsed = 0
    /\ IsFile(fs0, <<NameAT>>) /\ IsFile(fs0, <<NameDotB>>) /\ ~Exists(fs0, <<NameT>>)
    /\ Moved(fs0, fs, NameAT)

\* C2: when the bucket directory is there by the time create_dir is attempted
\* (another process created it after the existence check), handle_file does
\* not fail
C2_RaceTolerated ==
    (pc = "hf_ret" /\ ops.mkdir = "exists") => result = "ok"

\* C3 as stated: handling a created-file event's path that is not a regular
\* file changes nothing in the filesystem and returns no error
C3_Original ==
    (pc = "hf_ret" /\ caller = "event" /\ ops.isfile = "no") =>
        (ops.mkdir # "created" /\ ops.rename = "-" /\ result = "ok")

\* C3 amended: such a path is never renamed and, once move_file has seen that
\* it is no regular file, handle_file returns Ok; the bucket directory may
\* have been created
C3_Amended ==
    (pc = "hf_ret" /\ caller = "event" /\ ops.isfile # "yes") =>
        (ops.rename = "-" /\ ~ops.moved /\ (ops.isfile = "no" => result = "ok"))

C3_Witness ==
    /\ pc = "hf_ret" /\ caller = "event"
    /\ ops.isfile = "no" /\ ops.mkdir = "created" /\ result = "ok"
    /\ ~Exists(fs, handle)

\* C4: rename is only ever called on a source that is a regular file at that
\* moment: a file that another process removed or replaced before the rename
\* is skipped
C4_RenameOnlyRegular ==
    (pc = "hf_ret" /\ ops.rename # "-") => ops.src = "file"

Unclassifiable(h) == ~FileName(h).some \/ ~Extension(h).some

\* C5: handle_file on a path without extension or file name makes no
\* filesystem call and returns the Unclassifiable error, after which the
\* scan or the event goes on with the same filesystem
C5_UnclassifiableLocal ==
    [][/\ (pc = "hf_start" /\ Unclassifiable(handle) /\ pc' # "hf_start") =>
              (fs' = fs /\ pc' = "hf_ret" /\ result' = "Unclassifiable" /\ ops' = NoOps)
       /\ (pc = "hf_ret" /\ result = "Unclassifiable") =>
              (fs' = fs /\ pc' \in {"scan", "dispatch"} /\ exitCode' = exitCode)]_vars

C5_Witness ==
    /\ pc = "hf_ret" /\ caller = "backload" /\ result = "Unclassifiable"
    /\ handle = <<NameDotB>> /\ IsFile(fs, handle) /\ fs[handle] = fs0[handle]

\* C6: when handle_event returns it returns Ok, and for a created-file event
\* it has called handle_file on exactly the event's paths, in order
C6_OncePerPath ==
    pc = "he_ret" => (result = "ok" /\ (ev.kind = "CreateFile" => calls = ev.paths))

C6_Witness ==
    /\ pc = "he_ret"
    /\ ev.paths = <<<<DotDot>>, <<NameAT>>>>
    /\ calls = ev.paths
    /\ fs[DestOf(NameAT)] = FileEntry(<<"ext", NameAT>>)
    /\ IsFile(fs0, <<NameAT>>)

\* C7: backload returns an error only for a failure to list the directory;
\* when it returns Ok it has handled every regular file of the directory
\* (no other process acting)
C7_BestEffort ==
    pc = "backload_ret" =>
        /\ result \in {"ok", "DirectoryList"}
        /\ (result = "ok" /\ extUsed = 0) =>
               scanned = {n \in Names : IsFile(fs0, <<n>>)}

C7_Witness ==
    /\ BackloadReturnedOk /\ extUsed = 0
    /\ IsFile(fs0, <<NameAT>>) /\ IsDir(fs0, DestOf(NameAT))
    /\ IsFile(fs0, <<NameDotB>>) /\ IsFile(fs0, <<NameADot>>)
    /\ scanned = {NameAT, NameDotB, NameADot}
    /\ IsFile(fs, <<NameAT>>)

\* C8: after an event or a channel error the loop waits for the next item,
\* and once the watch is registered the process ends only from there, with
\* the channel closed
C8_LoopContinues ==
    [][/\ pc \in {"he_ret", "chan_err"} => pc' = "listening"
       /\ (pc = "hf_ret" /\ caller = "event") => pc' = "dispatch"
       /\ (watching /\ pc # "exited" /\ pc' = "exited") => (pc = "listening" /\ closed')]_vars

C8_Witness ==
    pc = "listening" /\ result = "ChannelError" /\ nrecv >= 1 /\ ~closed

InBackload ==
    \/ pc \in {"start", "read_dir", "scan", "backload_ret"}
    \/ pc \in {"hf_start", "hf_create", "hf_isfile", "hf_rename", "hf_ret"} /\ caller = "backload"

C9_State ==
    /\ InBackload => (~watching /\ nrecv = 0 /\ ev = NoEvent)
    /\ pc = "run_init" => (result = "ok" /\ pending = {} /\ ~watching /\ nrecv = 0)
    /\ watching => (pending = {} /\ ~InBackload)
    /\ (pc = "exited" /\ result = "DirectoryList") => (~watching /\ nrecv = 0)

\* C9: backload is entered once; while it runs no watch is registered and no
\* item received; run is entered only after backload returned Ok
C9_StrictSequence ==
    /\ []C9_State
    /\ [][(pc' \in {"start", "read_dir"} /\ pc' # pc) => pc = "start"]_vars

C9_Witness ==
    pc = "hf_start" /\ caller = "event" /\ watching /\ nrecv = 1 /\ IsFile(fs, handle)

EventDone == pc = "he_ret" /\ ev.kind = "CreateFile" /\ ev.ext = extUsed

Reported(n) == \E i \in 1..Len(ev.paths) : ev.paths[i] = <<n>>

\* C10 as stated: once the loop has handled a created-file event, every
\* regular file with a non-empty extension that the event names is at
\* <ext>/<name> (no other process acting since the event was received)
C10_Original ==
    EventDone =>
        \A n \in Names :
            (Reported(n) /\ IsFile(fs0, <<n>>) /\ HasBucket(n)) => Moved(fs0, fs, n)

\* C10 amended: the same, for the files whose bucket name was not taken by a
\* regular file and whose destination was not a directory when the event
\* was received
C10_Amended ==
    EventDone =>
        \A n \in Names :
            (Reported(n) /\ IsFile(fs0, <<n>>) /\ HasBucket(n) /\ Usable(fs0, n))
                => Moved(fs0, fs, n)

C10_Witness ==
    /\ EventDone /\ nrecv = 2
    /\ Reported(NameAT)
    /\ fs0[<<NameAT>>] = FileEntry(<<"ext", NameAT>>)
    /\ Moved(fs0, fs, NameAT)

\* the destination handle_file computes for the path it is handling
HandleDest == Destination(dir, FileName(handle).val)

\* C11: when handle_file renames a regular file onto a regular file of the
\* same name that an earlier move left in the bucket, the rename succeeds,
\* handle_file returns Ok, the bucket's file has the content of the second
\* file, the source path is gone and nothing else has changed
C11_LastWriterWins ==
    [][(/\ pc = "hf_rename" /\ pc' = "hf_ret"
        /\ IsFile(fs, handle) /\ IsDir(fs, dir)
        /\ HandleDest # handle /\ IsFile(fs, HandleDest))
         => /\ result' = "ok"
            /\ fs'[HandleDest] = fs[handle]
            /\ ~Exists(fs', handle)
            /\ \A p \in FsPaths \ {handle, HandleDest} : fs'[p] = fs[p]]_vars

C11_Witness ==
    /\ pc = "hf_ret" /\ caller = "event" /\ result = "ok" /\ ops.moved
    /\ handle = <<NameAT>>
    /\ fs0[DestOf(NameAT)] = FileEntry(<<"init", NameAT>>)
    /\ fs0[<<NameAT>>] = FileEntry(<<"ext", NameAT>>)
    /\ fs[DestOf(NameAT)] = FileEntry(<<"ext", NameAT>>)
    /\ ~Exists(fs, <<NameAT>>)

\* C12: an event of another kind than file creation is discarded: while it
\* is the current item handle_event has returned Ok without calling
\* handle_file on any of its paths, and the filesystem is as it was when the
\* event was received
C12_OtherDiscarded ==
    ev.kind = "Other" =>
        (pc = "he_ret" /\ result = "ok" /\ calls = <<>> /\ idx = 0 /\ fs = fs0)

C12_Witness ==
    /\ pc = "he_ret" /\ ev.kind = "Other"
    /\ ev.paths = <<<<NameAT>>, <<NameDotB>>>>
    /\ fs[<<NameAT>>] = FileEntry(<<"ext", NameAT>>)
    /\ ~Exists(fs, BucketOf(NameAT))

InHandleFile == pc \in {"hf_start", "hf_create", "hf_isfile", "hf_rename"}

\* no other process has acted since backload was called or, for an event,
\* since the event was received
NoInterference ==
    \/ caller = "backload" /\ extUsed = 0
    \/ caller = "event" /\ ev.ext = extUsed

C13_State ==
    (pc = "hf_ret" /\ IsErr(result)) =>
        /\ result \in {"Unclassifiable", "DirectoryCreate", "Move"}
        /\ ~ops.moved /\ ops.rename # "ok"
        /\ NoInterference =>
              /\ IsFile(fs0, handle) => Lookup(fs, handle) = Lookup(fs0, handle)
              /\ ops.mkdir = "-"
              /\ caller = "backload" => (handle[1] \notin pending /\ handle[1] \in scanned)

C13_Step ==
    /\ (InHandleFile /\ pc' = "hf_ret" /\ IsErr(result')) => fs' = fs
    /\ (pc = "hf_ret" /\ IsErr(result)) =>
           (fs' = fs /\ pending' = pending /\ pc' \in {"scan", "dispatch"})
    /\ (pc' = "hf_start" /\ pc # "hf_start") =>
           \/ pc = "scan" /\ handle'[1] \in pending /\ handle'[1] \notin pending'
           \/ pc = "dispatch" /\ idx' = idx + 1 /\ handle' = ev.paths[idx']

\* C13: when handle_file returns an error (no file name or extension,
\* create_dir failed, rename failed) the failing call has renamed nothing,
\* the step that failed left the filesystem as it was, and with no other
\* process acting a regular file at the path handled is there with its
\* content and the call created nothing; the caller goes on to its next entry or path: handle_file is
\* entered only for an entry taken out of the directory scan or for the
\* next path of the current event
C13_FailedLeftInPlace == []C13_State /\ [][C13_Step]_vars

C13_Witness ==
    /\ pc = "hf_ret" /\ result = "Move" /\ caller = "backload" /\ extUsed = 0
    /\ handle = <<NameAT>> /\ IsFile(fs, <<NameT>>)
    /\ IsFile(fs, handle) /\ fs = fs0 /\ pending # {}

\* C14 as stated: with no other process acting, once create_dir_if_not_exists
\* has returned Ok the bucket is a directory, and no call fails, whatever
\* was at TargetDirectory/<ext>
C14_Original ==
    /\ (pc = "hf_isfile" /\ NoInterference) => IsDir(fs, dir)
    /\ (pc = "hf_ret" /\ NoInterference) => result # "DirectoryCreate"

C14_State ==
    /\ (pc = "hf_isfile" /\ NoInterference) =>
           (Exists(fs, dir) /\ (~IsFile(fs0, dir) => IsDir(fs, dir)))
    /\ (pc = "hf_ret" /\ NoInterference) => result # "DirectoryCreate"

C14_Step ==
    /\ (pc = "hf_start" /\ pc' = "hf_isfile") => (Exists(fs, dir') /\ fs' = fs)
    /\ (pc = "hf_start" /\ pc' = "hf_create") => (~Exists(fs, dir') /\ fs' = fs)
    /\ (pc = "hf_create" /\ pc' = "hf_isfile") =>
           (~Exists(fs, dir) /\ fs' = [fs EXCEPT ![dir] = DirEntry])
    /\ (pc = "hf_create" /\ pc' = "hf_ret") =>
           (Exists(fs, dir) /\ fs' = fs /\ result' = "DirectoryCreate")

\* C14 amended: create_dir_if_not_exists returns Ok and changes nothing when
\* something exists at TargetDirectory/<ext>, and otherwise calls create_dir,
\* which creates the directory unless something has appeared there since;
\* with no other process acting no call fails, and the bucket is a directory
\* afterwards unless a regular file had its name
C14_Amended == []C14_State /\ [][C14_Step]_vars

C14_Witness ==
    /\ pc = "hf_isfile" /\ caller = "event" /\ NoInterference
    /\ idx = 2 /\ ev.paths = <<<<NameAT>>, <<NameAT>>>>
    /\ ~Exists(fs0, BucketOf(NameAT))
    /\ ops.mkdir = "-" /\ IsDir(fs, dir) /\ dir = BucketOf(NameAT)

\* the configured path is relative and HOME is not set
Unresolvable == target_dir[1] # Root /\ ~home.some

C15_State ==
    /\ (pc = "exited" /\ exitCode # 0) =>
           \/ result = "-" /\ Unresolvable
           \/ result \in {"DirectoryList", "WatchRegistration"}
    /\ (pc = "exited" /\ exitCode = 0) => (watching /\ closed)
    /\ result \in {"Unclassifiable", "DirectoryCreate", "Move", "ChannelError"} =>
           pc # "exited"

C15_Step ==
    /\ (pc = "start" /\ Unresolvable /\ pc' # pc) => (pc' = "exited" /\ exitCode' = 1)
    /\ (pc = "backload_ret" /\ result = "DirectoryList") =>
           (pc' = "exited" /\ exitCode' = 1)
    /\ (result' = "WatchRegistration" /\ result # result') =>
           (pc' = "exited" /\ exitCode' = 1)
    /\ (pc' = "exited" /\ pc # "exited" /\ exitCode' # 0) =>
           pc \in {"start", "backload_ret", "run_init"}
    /\ pc \in {"hf_ret", "he_ret", "chan_err"} => pc' # "exited"

\* C15: the process exits with a non-zero status exactly when the target
\* path cannot be resolved, when the directory cannot be listed at backload
\* or when the watch cannot be registered; after a failure of handle_file,
\* of handle_event or of the channel it goes on, and it ends with status 0
\* only when the channel is closed
C15_FatalOnlyAtInit == []C15_State /\ [][C15_Step]_vars

C15_Witness ==
    /\ pc = "exited" /\ exitCode = 1 /\ result = "WatchRegistration"
    /\ IsFile(fs, <<NameAT>>) /\ IsFile(fs, <<NameT>>) /\ extUsed = 0

\* the bucket directories: TargetDirectory/<ext>
Buckets == {<<e>> : e \in Exts}

C16_State ==
    (InHandleFile /\ caller = "backload") =>
        (Len(handle) = 1 /\ handle[1] \in Names /\ handle[1] \in scanned)

C16_Step ==
    /\ (pc = "scan" /\ pc' = "hf_start") =>
           (Len(handle') = 1 /\ handle'[1] \in pending /\ IsFile(fs, handle'))
    /\ (pc = "scan" /\ pc' = "scan" /\ extUsed' = extUsed) => fs' = fs
    /\ extUsed' = extUsed =>
           /\ \A b \in Buckets : IsDir(fs, b) => fs'[b] = fs[b]
           /\ \A p \in BucketPaths : IsFile(fs, p) => IsFile(fs', p)

\* C16: backload calls handle_file only on entries of the target directory
\* itself that are regular files, and skips every other entry without
\* touching the filesystem; no step of the program removes or renames a
\* bucket directory, and a file that is inside a bucket stays at its path
C16_BucketsLeftAlone == []C16_State /\ [][C16_Step]_vars

C16_Witness ==
    /\ pc = "scan" /\ pending = {} /\ extUsed = 0
    /\ IsDir(fs0, <<NameT>>) /\ IsFile(fs0, <<NameDotB>>)
    /\ scanned = {NameDotB}
    /\ fs[DestOf(NameAT)] = FileEntry(<<"init", NameT, NameAT>>)
    /\ fs = fs0

C17_State ==
    /\ (pc \notin {"start", "exited"} \/ watching) =>
           target_dir \in {AbsTarget, HomeDir \o RelTarget}
    /\ (pc = "exited" /\ Unresolvable) =>
           (exitCode = 1 /\ ~watching /\ pending = {} /\ scanned = {} /\ nrecv = 0
            /\ fs = fs0)

C17_Step ==
    /\ (pc = "start" /\ pc' # pc) =>
           IF target_dir[1] = Root
           THEN target_dir' = target_dir /\ pc' = "read_dir"
           ELSE IF home.some
           THEN target_dir' = home.val \o target_dir /\ pc' = "read_dir"
           ELSE target_dir' = target_dir /\ pc' = "exited" /\ exitCode' = 1
    /\ pc # "start" => target_dir' = target_dir
    /\ home' = home

\* C17: expand_path keeps an absolute target_dir and replaces a relative one
\* by HOME followed by it; when HOME is not set for a relative one the
\* process exits with status 1 before anything is listed or watched; after
\* that step target_dir never changes, so the scan and the watch use the
\* same directory
C17_PathResolution == []C17_State /\ [][C17_Step]_vars

C17_Witness ==
    /\ pc = "listening" /\ watching
    /\ target_dir = HomeDir \o RelTarget
    /\ ~Exists(fs, <<NameAT>>) /\ IsFile(fs, DestOf(NameAT))

\* f0 once the file at the top-level path n has been moved into its bucket
AfterMove(f0, n) ==
    [p \in FsPaths |->
        IF p = <<n>> THEN Absent
        ELSE IF p = DestOf(n) THEN f0[<<n>>]
        ELSE IF p = BucketOf(n) THEN DirEntry
        ELSE f0[p]]

\* handle_file has returned from its k-th call for an event whose first two
\* paths are both n, no other process having acted since the event
CallReturned(k, n) ==
    /\ pc = "hf_ret" /\ caller = "event" /\ NoInterference
    /\ Len(ev.paths) >= 2 /\ ev.paths[1] = <<n>> /\ ev.paths[2] = <<n>>
    /\ idx = k

\* C18: when handle_file is called twice in a row on the path of a regular
\* file whose bucket is usable, the first call moves the file and the second
\* returns Ok without creating or renaming anything: the filesystem is
\* what the first call left
C18_SecondCallNoOp ==
    \A n \in Names :
        (HasBucket(n) /\ IsFile(fs0, <<n>>) /\ Usable(fs0, n)) =>
            /\ CallReturned(1, n) =>
                   (result = "ok" /\ ops.moved /\ fs = AfterMove(fs0, n))
            /\ CallReturned(2, n) =>
                   /\ result = "ok"
                   /\ ops = [NoOps EXCEPT !.isfile = "no"]
                   /\ fs = AfterMove(fs0, n)

C18_Witness ==
    /\ CallReturned(2, NameAT)
    /\ fs0[<<NameAT>>] = FileEntry(<<"ext", NameAT>>)
    /\ ~Exists(fs0, BucketOf(NameAT))
    /\ result = "ok" /\ fs = AfterMove(fs0, NameAT)

\* a bucket directory is created directly under the target directory
BucketCreated ==
    \E b \in Buckets : ~Exists(fs, b) /\ fs' = [fs EXCEPT ![b] = DirEntry]

\* a regular file of the target directory is renamed to <ext>/<name>
FileMovedToBucket ==
    \E n \in Names :
        /\ HasBucket(n) /\ IsFile(fs, <<n>>) /\ IsDir(fs, BucketOf(n))
        /\ fs' = AfterMove(fs, n)

\* C19: a step of the program that changes the filesystem either creates a
\* bucket directory directly under the target directory or renames a
\* regular file of the target directory to <ext>/<name>; so a file's content
\* disappears only from a bucket, replaced by a file of the same name
C19_OnlyBucketsAndMoves ==
    [][(extUsed' = extUsed /\ fs' # fs) => (BucketCreated \/ FileMovedToBucket)]_vars

\* C19, its first half alone: a step of the program leaves every regular
\* file where it is with its content, or renames it from the target
\* directory to <ext>/<name>, or replaces it in its bucket by the file of
\* the same name from the target directory
C19_ContentKept ==
    [][extUsed' = extUsed =>
         \A p \in FsPaths :
             IsFile(fs, p) =>
                 \/ fs'[p] = fs[p]
                 \/ /\ Len(p) = 1 /\ p[1] \in Names /\ HasBucket(p[1])
                    /\ fs'[DestOf(p[1])] = fs[p]
                 \/ /\ p \in BucketPaths /\ IsFile(fs, <<p[2]>>)
                    /\ fs'[p] = fs[<<p[2]>>]]_vars

====
